---- MODULE Spec2Model ----
(***************************************************************************)
(* A model of ESPEI's fast equilibrium engine (espei/shadow_functions.py)  *)
(* and of the parameter bounds predicate                                   *)
(* (espei/error_functions/bounds_error.py).                                *)
(***************************************************************************)
EXTENDS Integers, Sequences, FiniteSets, TLC

(***************************************************************************)
(* Bounds of the model.                                                    *)
(***************************************************************************)
\* longest parameter / bounds list
MaxLen == 2
\* parameter values, bound ends and base values range over -MaxVal..MaxVal
MaxVal == 1
\* a phase has 1..MaxDof internal degrees of freedom
MaxDof == 2
\* the point density: a phase is sampled at 1..MaxPdens points
MaxPdens == 2
\* at most MaxLow sampled points carry the low energy
MaxLow == 2
\* a sampled point has energy 0 (low) or MaxEnergy; the solver leaves an
\* energy in -1..MaxEnergy
MaxEnergy == 1

VARIABLES
    \* bounds_error.py
    parameters,     \* the candidate parameter list of the last call
    bounds,         \* the list of (min, max) pairs of the last call
    base,           \* the parameter list generate_bounds was given
    factor,         \* the factor generate_bounds was given
    error,          \* what calculate_bounds_error returned
    bpc,            \* "idle" | "generated" | "checked" | "generated_checked"
    \* shadow_functions.py: what the caller holds
    phase_records,  \* phase name -> phase record (its phase_dof)
    pdens,          \* the point density the caller samples with
    low_points,     \* the sampled points <<phase, index>> of low energy
    conditions,     \* the caller's conditions: state variable -> values
    \* shadow_functions.py: calculate_
    phases,         \* the phases argument of the last calculate_ call
    fake_points,    \* the fake_points argument of the last calculate_ call
    points,         \* the points argument of the last calculate_ call
    calls,          \* the per-phase evaluations of that call, in call order
    all_phase_data, \* the per-phase results of that call
    concatenated,   \* whether that call took the concatenation branch
    grid,           \* the grid the last calculate_ call returned
    pc,             \* "idle" | "SAMPLED" | "STARTED" | "CONVERGED" |
                    \* "NOT_CONVERGED" | "RAISED": where the caller is
    \* shadow_functions.py: constrained_equilibrium
    compset,        \* the composition set of the call
    compsets_built, \* how many composition sets the call has built
    solver_calls,   \* how often the call has invoked the solver
    solver_args,    \* the composition sets the solver was last given
    result,         \* what the call returned, or the error it raised
    \* shadow_functions.py: equilibrium_ and no_op_equilibrium_
    eq_done,        \* equilibrium_ was called on the grid
    eq_start,       \* the starting point equilibrium_ handed to the solver
    eq_solver_calls,    \* how often that call invoked the solver
    eq_result,      \* what equilibrium_ returned
    noop_done,      \* no_op_equilibrium_ was called on the grid
    noop_result,    \* what no_op_equilibrium_ returned
    noop_solver_calls,  \* how often that call invoked the solver
    \* shadow_functions.py: update_phase_record_parameters
    heap,           \* array id -> the numpy array stored there
    array_of,       \* phase record id -> the array its parameters attribute is
    upd_params,     \* the parameters argument of the last update
    heap_before,    \* the arrays as they were before the last update
    upc,            \* "idle" | "updated"
    \* concurrent tasks, each updating and then evaluating
    mode,           \* "shared" | "distinct" | "locked": how tasks use records
    lock,           \* the task holding the mutual exclusion lock, or 0
    tpc,            \* task -> "idle" | "update" | "evaluate" | "release" | "done"
    tidx,           \* task -> the position of its loop over the phase records
    used            \* task -> phase -> the parameter values it evaluated with

boundsVars == <<parameters, bounds, base, factor, error, bpc>>
worldVars == <<phase_records, pdens, low_points, conditions>>
calcVars == <<phases, fake_points, points, calls, all_phase_data, concatenated, grid, pc>>

ceVars == <<compset, compsets_built, solver_calls, solver_args, result>>
eqVars == <<eq_done, eq_start, eq_solver_calls, eq_result, noop_done, noop_result, noop_solver_calls>>

updVars == <<heap, array_of, upd_params, heap_before, upc>>
taskVars == <<mode, lock, tpc, tidx, used>>

vars == <<boundsVars, worldVars, calcVars, ceVars, eqVars, updVars, taskVars>>

\* what the calls to one function leave alone
notBounds == <<worldVars, calcVars, ceVars, eqVars, updVars, taskVars>>
notCalc == <<boundsVars, worldVars, ceVars, eqVars, updVars, taskVars>>
notEq == <<boundsVars, worldVars, updVars, taskVars>>
notUpd == <<boundsVars, worldVars, calcVars, ceVars, eqVars>>

(***************************************************************************)
(* Helpers.                                                                *)
(***************************************************************************)
Min(a, b) == IF a <= b THEN a ELSE b

\* every list over S of length lo..hi
SeqsOf(S, lo, hi) == UNION {[1..n -> S] : n \in lo..hi}

\* Python's zip: pairs up to the shorter of the two lists
Zip(xs, ys) == [i \in 1..Min(Len(xs), Len(ys)) |-> <<xs[i], ys[i]>>]

\* Python's any over a list of booleans
AnyTrue(bs) == \E i \in 1..Len(bs) : bs[i]

(***************************************************************************)
(* shadow_functions.py: calculate_                                         *)
(***************************************************************************)
\* the phase names, in the order Python's sorted() puts them
PhaseOrder == <<"ALPHA", "BETA", "GAMMA">>
PhaseNames == {PhaseOrder[i] : i \in 1..Len(PhaseOrder)}
Rank(name) == CHOOSE i \in 1..Len(PhaseOrder) : PhaseOrder[i] = name

\* the species of the system, in sorted order, with their atom counts
SpeciesOrder == <<"A", "B", "VA">>
NumberOfAtoms(sp) == IF sp = "VA" THEN 0 ELSE 1

\* the NaN that pads internal coordinates
NaN == 0 - 1
\* largest_energy = 1e10, the energy of a fake point, in units of ten (TLC
\* integers are 32 bits wide); every real energy is below it
LargestEnergy == 1000000000

None == [none |-> TRUE]
NoGrid == [coords |-> None, rows |-> <<>>]

\* sequence helpers
RECURSIVE Flatten(_)
Flatten(ss) == IF ss = <<>> THEN <<>> ELSE Head(ss) \o Flatten(Tail(ss))

\* sorted() replaced by the order the caller gave
Unsorted(s) == s

\* Python's sorted() on phase names (stable insertion by rank)
RECURSIVE Sorted(_)
Sorted(s) ==
    IF s = <<>> THEN <<>>
    ELSE LET rest == Sorted(Tail(s))
             x == Head(s)
             before == SelectSeq(rest, LAMBDA y : Rank(y) < Rank(x))
             after == SelectSeq(rest, LAMBDA y : Rank(y) >= Rank(x))
         IN  before \o <<x>> \o after

\* _sample_phase_constitution: a 2-d array of pd points for the phase, in
\* sampling order
SamplePhaseConstitution(phase_name, pd) ==
    [ndim |-> 2,
     data |-> [i \in 1..pd |-> [src |-> "sampled", phase |-> phase_name, idx |-> i]]]

\* np.atleast_2d: one point (a 1-d array) becomes an array of one point, an
\* array of points stays as it is
AtLeast2d(arr) ==
    IF arr.ndim = 1 THEN [ndim |-> 2, data |-> <<arr.data>>] ELSE arr

\* the energy the phase record evaluates at a point
Energy(phase_name, pt, low) ==
    IF pt.src = "sampled" /\ <<phase_name, pt.idx>> \in low
    THEN 0 ELSE MaxEnergy

\* the internal coordinates at a point: phase_dof entries
Coordinates(pt, dof) == [k \in 1..dof |-> pt.idx]

\* internal coordinates padded with NaN to the width the caller asked for
Pad(y, width) == [k \in 1..width |-> IF k <= Len(y) THEN y[k] ELSE NaN]

\* _compute_phase_values: the per-phase dataset, fake points first
ComputePhaseValues(components, statevar_dict, pts, phase_name, prx, width, fp, low) ==
    LET fake == IF fp
                THEN [c \in 1..Len(components) |->
                        [Phase |-> "_FAKE_", Y |-> Pad(<<>>, width),
                         GM |-> LargestEnergy]]
                ELSE <<>>
        real == [i \in 1..Len(pts) |->
                   [Phase |-> phase_name,
                    Y |-> Pad(Coordinates(pts[i], prx.phase_dof), width),
                    GM |-> Energy(phase_name, pts[i], low)]]
    IN  [coords |-> statevar_dict, rows |-> fake \o real]

\* the largest value of a non-empty set of integers
Max(S) == CHOOSE x \in S : \A y \in S : y <= x

\* the padding width over the phases of the call only
MaximumInternalDofOfPhases(records, phs) ==
    Max({records[phs[i]].phase_dof : i \in 1..Len(phs)})

\* line 78: the padding width, over every record of phase_records
MaximumInternalDof(records, phs) ==
    Max({records[name].phase_dof : name \in DOMAIN records})

\* the fake-points flag handed to every phase
FakePointsFlagAll(fake, phase_name, phs) == fake

\* line 88: the fake-points flag of one phase
FakePointsFlag(fake, phase_name, phs) ==
    fake /\ (phase_name = Sorted(phs)[1])

\* calculate_: the per-phase evaluations in sorted phase order, then the
\* concatenation along the points axis
calculate_(species, phs, str_statevar_dict, records, pts_arg, pd, fake, low) ==
    LET nonvacant_components == SelectSeq(species, LAMBDA x : NumberOfAtoms(x) > 0)
        maximum_internal_dof == MaximumInternalDof(records, phs)
        order == Sorted(phs)
        args == [k \in 1..Len(order) |->
                   [phase_name |-> order[k],
                    points |-> AtLeast2d(IF pts_arg = None
                                         THEN SamplePhaseConstitution(order[k], pd)
                                         ELSE pts_arg.given).data,
                    maximum_internal_dof |-> maximum_internal_dof,
                    fake_points |-> FakePointsFlag(fake, order[k], phs)]]
        data == [k \in 1..Len(order) |->
                   ComputePhaseValues(nonvacant_components, str_statevar_dict,
                                      args[k].points, order[k], records[order[k]],
                                      maximum_internal_dof, args[k].fake_points, low)]
        final_ds == IF Len(data) > 1
                    THEN [coords |-> data[1].coords,
                          rows |-> Flatten([k \in 1..Len(data) |-> data[k].rows])]
                    ELSE data[1]
    IN  [final_ds |-> final_ds, calls |-> args, all_phase_data |-> data,
         concatenated |-> Len(data) > 1]

\* the state-variable conditions as calculate_ gets them, keyed by name
StrStatevarDict(conds) ==
    [key \in DOMAIN conds \cap {"N", "P", "T"} |-> conds[key]]

\* the worlds a caller can be in
DofChoices == [PhaseNames -> [phase_dof : 1..MaxDof]]
SampledPoints(pd) == PhaseNames \X (1..pd)
LowChoices(pd, most) == {L \in SUBSET SampledPoints(pd) : Cardinality(L) <= most}
PointConditions == [N |-> <<1>>, P |-> <<101325>>, T |-> <<300>>]

\* the phase lists a caller passes: non-empty, duplicates allowed
PhaseLists == SeqsOf(PhaseNames, 1, Len(PhaseOrder))
\* the points a caller passes: none (sample), one explicit point as a 1-d
\* array, or an array of one explicit point
GivenPoint == [src |-> "given", phase |-> "any", idx |-> 1]
PointsArgs ==
    {None,
     [given |-> [ndim |-> 1, data |-> GivenPoint]],
     [given |-> [ndim |-> 2, data |-> <<GivenPoint>>]]}

CalcIdle ==
    /\ phases = <<>>
    /\ fake_points = FALSE
    /\ points = None
    /\ calls = <<>>
    /\ all_phase_data = <<>>
    /\ concatenated = FALSE
    /\ grid = NoGrid
    /\ pc = "idle"

WorldIdle ==
    /\ phase_records = [name \in PhaseNames |-> [phase_dof |-> 1]]
    /\ pdens = 1
    /\ low_points = {}
    /\ conditions = PointConditions

\* a caller calls calculate_
CallCalculate(phs, fake, pts) ==
    LET r == calculate_(SpeciesOrder, phs, StrStatevarDict(conditions),
                        phase_records, pts, pdens, fake, low_points)
    IN  /\ phases' = phs
        /\ fake_points' = fake
        /\ points' = pts
        /\ calls' = r.calls
        /\ all_phase_data' = r.all_phase_data
        /\ concatenated' = r.concatenated
        /\ grid' = r.final_ds
        /\ pc' = "SAMPLED"

Calculate ==
    /\ pc = "idle"
    /\ \E phs \in PhaseLists, fake \in BOOLEAN, pts \in PointsArgs :
          CallCalculate(phs, fake, pts)
    /\ UNCHANGED notCalc

(***************************************************************************)
(* shadow_functions.py: the starting point and the equilibrium functions   *)
(***************************************************************************)
\* the state variables, in the order sorted(..., key=str) puts them
StateVariableOrder == <<"N", "P", "T">>

\* get_state_variables(conds=conditions): the set of state variables among
\* the keys of the conditions
GetStateVariables(conds) ==
    DOMAIN conds \cap {StateVariableOrder[i] : i \in 1..Len(StateVariableOrder)}

\* sorted(state_variables, key=str)
SortedByStr(svs) == SelectSeq(StateVariableOrder, LAMBDA sv : sv \in svs)

\* every order a Python set of state variables can be iterated in
IterationOrders(svs) ==
    {o \in [1..Cardinality(svs) -> svs] : \A sv \in svs : \E i \in DOMAIN o : o[i] = sv}

\* _adjust_conditions: a mole fraction is raised to the minimum composition
\* (1 in the model's unit of 1e-10), every other condition is kept
IsMoleFraction(key) == key = "X_B"
AdjustConditions(conds) ==
    [key \in DOMAIN conds |->
        IF IsMoleFraction(key)
        THEN [i \in 1..Len(conds[key]) |-> IF conds[key][i] < 1 THEN 1 ELSE conds[key][i]]
        ELSE conds[key]]

\* line 121: each condition's first value, keyed by the condition's name
StrConds(conds) == [key \in DOMAIN conds |-> conds[key][1]]

\* grid.GM.argmin(): the first index of the smallest value
ArgMin(rows) ==
    CHOOSE i \in 1..Len(rows) :
        /\ \A j \in 1..Len(rows) : rows[i].GM <= rows[j].GM
        /\ \A j \in 1..(i - 1) : rows[j].GM > rows[i].GM

\* grid.Y[..., idx_min, :].squeeze() for single-valued conditions: the row
\* has shape (1, ..., 1, width); squeeze drops every axis of length one, so
\* a row of width one becomes a 0-dimensional array
Squeeze(y) ==
    IF Len(y) = 1 THEN [ndim |-> 0, data |-> y] ELSE [ndim |-> 1, data |-> y]

\* array[:n]; a 0-dimensional array cannot be sliced (IndexError)
SliceTo(arr, n) ==
    IF arr.ndim = 0
    THEN [raised |-> "IndexError", data |-> <<>>]
    ELSE [raised |-> "", data |-> SubSeq(arr.data, 1, Min(n, Len(arr.data)))]

NoCompset == [phase_record |-> "", dof |-> <<>>, NP |-> 0, state_vars |-> <<>>, energy |-> 0]

\* _single_phase_start_point: the composition set at the cheapest grid point
single_phase_start_point(conds, state_variables, records, g) ==
    LET idx_min == ArgMin(g.rows)
        phase_name == g.rows[idx_min].Phase
    IN  IF phase_name \notin DOMAIN records
        THEN [raised |-> "KeyError", idx_min |-> idx_min, compset |-> NoCompset]
        ELSE LET prx == records[phase_name]
                 Y == SliceTo(Squeeze(g.rows[idx_min].Y), prx.phase_dof)
                 svs == SortedByStr(state_variables)
                 state_vars == [i \in 1..Len(svs) |-> conds[svs[i]][1]]
             IN  IF Y.raised # ""
                 THEN [raised |-> Y.raised, idx_min |-> idx_min, compset |-> NoCompset]
                 ELSE [raised |-> "", idx_min |-> idx_min,
                       compset |-> [phase_record |-> phase_name, dof |-> Y.data,
                                    NP |-> 1, state_vars |-> state_vars,
                                    energy |-> g.rows[idx_min].GM]]

\* what solve_and_update can leave behind: a converged flag and the
\* composition set with its phase fraction and energy changed in place
SolverOutcomes(cs) ==
    {[converged |-> c, compset |-> [cs EXCEPT !.NP = np, !.energy = e]] :
        c \in BOOLEAN, np \in 1..2, e \in (0 - 1)..MaxEnergy}

\* starting_point: pycalphad's multi-phase starting point, a function of the
\* conditions, of which variables are state variables, of the phase records
\* and of the grid
StartingPoint(conds, state_variables, records, g) ==
    [conditions |-> conds,
     state_variables |-> {state_variables[i] : i \in DOMAIN state_variables},
     phase_records |-> records,
     grid |-> g]

\* _solve_eq_at_conditions: the refined result for a starting point
SolveEqAtConditions(start_point, records, g, str_conds, state_variables) ==
    [solved |-> start_point, str_conds |-> str_conds, state_variables |-> state_variables]

\* equilibrium_: the starting point, handed to the solver
equilibrium_(records, conds, g) ==
    LET statevars == SortedByStr(GetStateVariables(conds))
        adjusted == AdjustConditions(conds)
        str_conds == adjusted
        start_point == StartingPoint(adjusted, statevars, records, g)
    IN  [start_point |-> start_point,
         solver_calls |-> 1,
         result |-> SolveEqAtConditions(start_point, records, g, str_conds, statevars)]

\* no_op_equilibrium_ without _adjust_conditions
no_op_equilibrium_unadjusted(records, conds, g, order) ==
    [solver_calls |-> 0, result |-> StartingPoint(conds, order, records, g)]

\* no_op_equilibrium_: the starting point itself; order is the order the set
\* of state variables happens to be iterated in
no_op_equilibrium_(records, conds, g, order) ==
    LET adjusted == AdjustConditions(conds)
    IN  [solver_calls |-> 0, result |-> StartingPoint(adjusted, order, records, g)]

CeIdle ==
    /\ compset = NoCompset
    /\ compsets_built = 0
    /\ solver_calls = 0
    /\ solver_args = [compsets |-> <<>>, str_conds |-> None]
    /\ result = None

EqIdle ==
    /\ eq_done = FALSE
    /\ eq_start = None
    /\ eq_solver_calls = 0
    /\ eq_result = None
    /\ noop_done = FALSE
    /\ noop_result = None
    /\ noop_solver_calls = 0

\* a caller samples the grid for an equilibrium calculation
CalculateGrid ==
    /\ pc = "idle"
    /\ \E phs \in PhaseLists, fake \in BOOLEAN : CallCalculate(phs, fake, None)
    /\ UNCHANGED notCalc

\* constrained_equilibrium, up to the composition set: lines 118-122
ConstrainedEquilibriumStart ==
    /\ pc = "SAMPLED"
    /\ LET statevars == GetStateVariables(conditions)
           adjusted == AdjustConditions(conditions)
           start == single_phase_start_point(adjusted, statevars, phase_records, grid)
       IN  IF start.raised # ""
           THEN /\ pc' = "RAISED"
                /\ result' = [raised |-> start.raised]
                /\ UNCHANGED <<compset, compsets_built>>
           ELSE /\ pc' = "STARTED"
                /\ compset' = start.compset
                /\ compsets_built' = compsets_built + 1
                /\ UNCHANGED result
    /\ UNCHANGED <<solver_calls, solver_args>>
    /\ UNCHANGED <<notEq, eqVars>>
    /\ UNCHANGED <<phases, fake_points, points, calls, all_phase_data, concatenated, grid>>

\* constrained_equilibrium, the solver call and the return: lines 124-126
ConstrainedEquilibriumSolve ==
    /\ pc = "STARTED"
    /\ \E solver_result \in SolverOutcomes(compset) :
          /\ solver_calls' = solver_calls + 1
          /\ solver_args' = [compsets |-> <<compset>>,
                              str_conds |-> StrConds(AdjustConditions(conditions))]
          /\ compset' = solver_result.compset
          /\ result' = [converged |-> solver_result.converged,
                        energy |-> solver_result.compset.NP * solver_result.compset.energy]
          /\ pc' = IF solver_result.converged THEN "CONVERGED" ELSE "NOT_CONVERGED"
    /\ UNCHANGED compsets_built
    /\ UNCHANGED <<notEq, eqVars>>
    /\ UNCHANGED <<phases, fake_points, points, calls, all_phase_data, concatenated, grid>>

\* a caller calls equilibrium_ on the grid
CallEquilibrium ==
    /\ pc = "SAMPLED"
    /\ ~eq_done
    /\ LET r == equilibrium_(phase_records, conditions, grid)
       IN  /\ eq_start' = r.start_point
           /\ eq_solver_calls' = r.solver_calls
           /\ eq_result' = r.result
    /\ eq_done' = TRUE
    /\ UNCHANGED <<noop_done, noop_result, noop_solver_calls>>
    /\ UNCHANGED <<notEq, calcVars, ceVars>>

\* a caller calls no_op_equilibrium_ on the grid
CallNoOpEquilibrium ==
    /\ pc = "SAMPLED"
    /\ ~noop_done
    /\ \E order \in IterationOrders(GetStateVariables(conditions)) :
          LET r == no_op_equilibrium_(phase_records, conditions, grid, order)
          IN  /\ noop_result' = r.result
              /\ noop_solver_calls' = r.solver_calls
    /\ noop_done' = TRUE
    /\ UNCHANGED <<eq_done, eq_start, eq_solver_calls, eq_result>>
    /\ UNCHANGED <<notEq, calcVars, ceVars>>

(***************************************************************************)
(* shadow_functions.py: update_phase_record_parameters                     *)
(***************************************************************************)
\* the phase records of a mapping, in the order the dict is iterated
NumRecords == Len(PhaseOrder)
\* record ids 1..NumRecords are one set of phase records, the ids above them
\* a second set of instances; every record is built with its own array
RecordIds == 1..(NumRecords + NumRecords)
ArrayIds == 1..(NumRecords + NumRecords + NumRecords)

\* the values a parameter takes, and the parameter vectors of a record
ParamValues == 0..MaxVal
ParamVectors == [1..MaxLen -> ParamValues]

\* np.asarray(parameters, dtype=np.float_): the same values as floats
AsArrayFloat(params) == [dtype |-> "float64", values |-> params.values]

\* dest[:] = src: the elements of src stored into dest, which keeps its
\* length and dtype; a src of one element is broadcast
SliceAssign(dest, src) ==
    [dtype |-> dest.dtype,
     values |-> [i \in DOMAIN dest.values |->
                   IF Len(src.values) = 1 THEN src.values[1] ELSE src.values[i]]]

\* line 28 storing into every array there is (one buffer for all records)
WriteParametersEverywhere(h, ao, rec, params) ==
    [heap |-> [a \in DOMAIN h |-> SliceAssign(h[a], AsArrayFloat(params))],
     array_of |-> ao]

\* line 28 binding the parameters attribute to a new array
WriteParametersRebinding(h, ao, rec, params) ==
    [heap |-> [h EXCEPT ![ao[rec] + NumRecords] = AsArrayFloat(params)],
     array_of |-> [ao EXCEPT ![rec] = ao[rec] + NumRecords]]

\* line 28: phase_record.parameters[:] = np.asarray(parameters, ...)
WriteParameters(h, ao, rec, params) ==
    [heap |-> [h EXCEPT ![ao[rec]] = SliceAssign(h[ao[rec]], AsArrayFloat(params))],
     array_of |-> ao]

\* lines 24-28: the loop over the records of the mapping
RECURSIVE WriteAll(_, _, _, _)
WriteAll(h, ao, recs, params) ==
    IF recs = <<>> THEN [heap |-> h, array_of |-> ao]
    ELSE LET w == WriteParameters(h, ao, Head(recs), params)
         IN  WriteAll(w.heap, w.array_of, Tail(recs), params)

\* update_phase_record_parameters: recs are the records of the mapping
update_phase_record_parameters(h, ao, recs, params) ==
    IF Len(params.values) > 0
    THEN WriteAll(h, ao, recs, params)
    ELSE [heap |-> h, array_of |-> ao]

\* the parameters a phase record evaluates with: what its array holds
RecordParameters(h, ao, rec) == h[ao[rec]].values

ZeroArray == [dtype |-> "float64", values |-> [i \in 1..MaxLen |-> 0]]

UpdIdle ==
    /\ heap = [a \in ArrayIds |-> ZeroArray]
    /\ array_of = [r \in RecordIds |-> r]
    /\ upd_params = [dtype |-> "float64", values |-> <<>>]
    /\ heap_before = [a \in ArrayIds |-> ZeroArray]
    /\ upc = "idle"

\* the records of the caller's mapping: one per phase, in dict order
MappingRecords == [i \in 1..NumRecords |-> i]

\* the parameter arrays a caller passes: empty or of the records' length,
\* of integer or of float dtype
ParameterArgs ==
    {[dtype |-> d, values |-> v] :
        d \in {"int64", "float64"}, v \in ParamVectors \cup {<<>>}}

\* a caller calls update_phase_record_parameters on its mapping
CallUpdatePhaseRecordParameters ==
    /\ \E params \in ParameterArgs :
          LET r == update_phase_record_parameters(heap, array_of, MappingRecords, params)
          IN  /\ heap' = r.heap
              /\ array_of' = r.array_of
              /\ upd_params' = params
    /\ heap_before' = heap
    /\ upc' = "updated"
    /\ UNCHANGED <<notUpd, taskVars>>

(***************************************************************************)
(* Concurrent tasks: each updates with its own parameters, then evaluates. *)
(***************************************************************************)
Tasks == {1, 2}
Other(t) == IF t = 1 THEN 2 ELSE 1

\* the parameter vector of a task: task 1 writes ones, task 2 writes twos
TaskParameters(t) == [dtype |-> "float64", values |-> [i \in 1..MaxLen |-> t]]

\* the records of the mapping a task works on: the same instances for both
\* tasks, or instances of its own
TaskRecords(t) ==
    IF mode = "distinct" /\ t = 2
    THEN [i \in 1..NumRecords |-> NumRecords + i]
    ELSE [i \in 1..NumRecords |-> i]

NotRead == <<>>

TaskIdle ==
    /\ mode = "shared"
    /\ lock = 0
    /\ tpc = [t \in Tasks |-> "idle"]
    /\ tidx = [t \in Tasks |-> 1]
    /\ used = [t \in Tasks |-> [i \in 1..NumRecords |-> NotRead]]

\* a task enters its update; under mutual exclusion it takes the lock first
TaskBegin(t) ==
    /\ tpc[t] = "idle"
    /\ IF mode = "locked"
       THEN lock = 0 /\ lock' = t
       ELSE UNCHANGED lock
    /\ tpc' = [tpc EXCEPT ![t] = "update"]
    /\ UNCHANGED <<mode, tidx, used, updVars, notUpd>>

\* one turn of the loop of update_phase_record_parameters (lines 24-28)
TaskUpdateRecord(t) ==
    /\ tpc[t] = "update"
    /\ LET w == WriteParameters(heap, array_of, TaskRecords(t)[tidx[t]], TaskParameters(t))
       IN  /\ heap' = w.heap
           /\ array_of' = w.array_of
    /\ IF tidx[t] < NumRecords
       THEN /\ tidx' = [tidx EXCEPT ![t] = tidx[t] + 1]
            /\ UNCHANGED tpc
       ELSE /\ tidx' = [tidx EXCEPT ![t] = 1]
            /\ tpc' = [tpc EXCEPT ![t] = "evaluate"]
    /\ UNCHANGED <<mode, lock, used, upd_params, heap_before, upc, notUpd>>

\* the task evaluates one phase record with the parameters the record holds
TaskEvaluate(t) ==
    /\ tpc[t] = "evaluate"
    /\ used' = [used EXCEPT ![t][tidx[t]] =
                  RecordParameters(heap, array_of, TaskRecords(t)[tidx[t]])]
    /\ IF tidx[t] < NumRecords
       THEN /\ tidx' = [tidx EXCEPT ![t] = tidx[t] + 1]
            /\ UNCHANGED tpc
       ELSE /\ tidx' = [tidx EXCEPT ![t] = 1]
            /\ tpc' = [tpc EXCEPT ![t] = IF mode = "locked" THEN "release" ELSE "done"]
    /\ UNCHANGED <<mode, lock, updVars, notUpd>>

\* under mutual exclusion the task gives the lock back
TaskRelease(t) ==
    /\ tpc[t] = "release"
    /\ lock = t
    /\ lock' = 0
    /\ tpc' = [tpc EXCEPT ![t] = "done"]
    /\ UNCHANGED <<mode, tidx, used, updVars, notUpd>>

(***************************************************************************)
(* bounds_error.py                                                         *)
(***************************************************************************)
\* the two values calculate_bounds_error returns: the integer 0 and -np.inf
Zero == [neg_inf |-> FALSE, value |-> 0]
NegInf == [neg_inf |-> TRUE, value |-> 0]

\* a factor is a scalar or a list of scalars
ScalarFactor(f) == [scalar |-> f]
ListFactor(fs) == [list |-> fs]
IsScalar(f) == "scalar" \in DOMAIN f

generate_bounds(params, f) ==
    IF IsScalar(f)
    THEN [i \in 1..Len(params) |->
            <<params[i] - params[i] * f.scalar, params[i] + params[i] * f.scalar>>]
    ELSE LET z == Zip(params, f.list)
         IN  [i \in 1..Len(z) |-> <<z[i][1] - z[i][1] * z[i][2], z[i][1] + z[i][1] * z[i][2]>>]

\* calculate_bounds_error with the upper end excluded (p >= max_bound)
calculate_bounds_error_exclusive(params, bnds) ==
    LET z == Zip(params, bnds)
        bounds_violated == [i \in 1..Len(z) |->
                              (z[i][1] < z[i][2][1]) \/ (z[i][1] >= z[i][2][2])]
    IN  IF AnyTrue(bounds_violated) THEN NegInf ELSE Zero

calculate_bounds_error(params, bnds) ==
    LET z == Zip(params, bnds)
        bounds_violated == [i \in 1..Len(z) |->
                              (z[i][1] < z[i][2][1]) \/ (z[i][1] > z[i][2][2])]
    IN  IF AnyTrue(bounds_violated) THEN NegInf ELSE Zero

Values == (0 - MaxVal)..MaxVal
BoundPairs == Values \X Values
\* the scale factors a caller passes (negative ones included)
Factors == {0 - 1, 0, 1, 2}

\* candidates at, one below and one above each end of a generated bound
Probes(b) == {b[1] - 1, b[1], b[1] + 1, b[2] - 1, b[2], b[2] + 1}

BoundsIdle ==
    /\ parameters = <<>>
    /\ bounds = <<>>
    /\ base = <<>>
    /\ factor = ScalarFactor(0)
    /\ error = Zero
    /\ bpc = "idle"

\* a caller builds the bounds list from a base parameter list and a factor
CallGenerateBounds ==
    /\ bpc = "idle"
    /\ \E n \in 1..MaxLen :
         \E ps \in [1..n -> Values] :
            \E f \in {ScalarFactor(x) : x \in Factors}
                     \cup {ListFactor(fs) : fs \in [1..n -> Factors]} :
               /\ base' = ps
               /\ factor' = f
               /\ bounds' = generate_bounds(ps, f)
    /\ bpc' = "generated"
    /\ UNCHANGED <<parameters, error, notBounds>>

\* a caller hands calculate_bounds_error a parameter list and any bounds list
CallCalculateBoundsError ==
    /\ bpc = "idle"
    /\ \E n \in 0..MaxLen, m \in 0..MaxLen :
         \E ps \in [1..n -> Values], bs \in [1..m -> BoundPairs] :
            /\ parameters' = ps
            /\ bounds' = bs
            /\ error' = calculate_bounds_error(ps, bs)
    /\ bpc' = "checked"
    /\ UNCHANGED <<base, factor, notBounds>>

\* a caller checks a candidate against the bounds generate_bounds produced
CallCalculateBoundsErrorGenerated ==
    /\ bpc = "generated"
    /\ \E ps \in [1..Len(bounds) -> UNION {Probes(bounds[i]) : i \in 1..Len(bounds)}] :
         /\ \A i \in 1..Len(bounds) : ps[i] \in Probes(bounds[i])
         /\ parameters' = ps
         /\ error' = calculate_bounds_error(ps, bounds)
    /\ bpc' = "generated_checked"
    /\ UNCHANGED <<bounds, base, factor, notBounds>>

InitBounds == BoundsIdle /\ WorldIdle /\ CalcIdle /\ CeIdle /\ EqIdle /\ UpdIdle /\ TaskIdle
NextBounds ==
    \/ CallGenerateBounds
    \/ CallCalculateBoundsError
    \/ CallCalculateBoundsErrorGenerated
SpecBounds == InitBounds /\ [][NextBounds]_vars

InitCalc ==
    /\ BoundsIdle /\ CalcIdle /\ CeIdle /\ EqIdle /\ UpdIdle /\ TaskIdle
    /\ phase_records \in DofChoices
    /\ pdens \in 1..MaxPdens
    /\ low_points = {}
    /\ conditions = PointConditions
NextCalc == Calculate
SpecCalc == InitCalc /\ [][NextCalc]_vars

\* the conditions of a point calculation; X_B in units of 1e-10
ConstrainedConditions == [N |-> <<1>>, P |-> <<101325>>, T |-> <<300>>, X_B |-> <<0>>]

InitEq ==
    /\ BoundsIdle /\ CalcIdle /\ CeIdle /\ EqIdle /\ UpdIdle /\ TaskIdle
    /\ phase_records \in DofChoices
    /\ pdens \in 1..MaxPdens
    /\ low_points \in LowChoices(pdens, MaxLow)
    /\ conditions = ConstrainedConditions
NextEq ==
    \/ CalculateGrid
    \/ ConstrainedEquilibriumStart
    \/ ConstrainedEquilibriumSolve
SpecEq == InitEq /\ [][NextEq]_vars

\* the conditions equilibrium_ is called with: single-valued or batched,
\* with a mole fraction below or above the minimum composition
EquilibriumConditions ==
    {[N |-> <<1>>, P |-> <<101325>>, T |-> t, X_B |-> <<x>>] :
        t \in {<<300>>, <<300, 400>>}, x \in {0, 3}}

InitShort ==
    /\ BoundsIdle /\ CalcIdle /\ CeIdle /\ EqIdle /\ UpdIdle /\ TaskIdle
    /\ phase_records \in DofChoices
    /\ pdens \in 1..MaxPdens
    /\ low_points \in {{}, {<<PhaseOrder[1], 1>>}}
    /\ conditions \in EquilibriumConditions
NextShort ==
    \/ CalculateGrid
    \/ CallEquilibrium
    \/ CallNoOpEquilibrium
SpecShort == InitShort /\ [][NextShort]_vars

\* the first two records start with any parameters, the others with zeros
InitUpd ==
    /\ BoundsIdle /\ WorldIdle /\ CalcIdle /\ CeIdle /\ EqIdle /\ TaskIdle
    /\ \E held \in [1..2 -> ParamVectors] :
          heap = [a \in ArrayIds |->
                    IF a <= 2
                    THEN [dtype |-> "float64", values |-> held[a]]
                    ELSE ZeroArray]
    /\ array_of = [r \in RecordIds |-> r]
    /\ upd_params = [dtype |-> "float64", values |-> <<>>]
    /\ heap_before = heap
    /\ upc = "idle"
NextUpd == CallUpdatePhaseRecordParameters
SpecUpd == InitUpd /\ [][NextUpd]_vars

InitTasks ==
    /\ BoundsIdle /\ WorldIdle /\ CalcIdle /\ CeIdle /\ EqIdle /\ UpdIdle
    /\ mode \in {"shared", "distinct", "locked"}
    /\ lock = 0
    /\ tpc = [t \in Tasks |-> "idle"]
    /\ tidx = [t \in Tasks |-> 1]
    /\ used = [t \in Tasks |-> [i \in 1..NumRecords |-> NotRead]]
NextTasks ==
    \E t \in Tasks :
        \/ TaskBegin(t)
        \/ TaskUpdateRecord(t)
        \/ TaskEvaluate(t)
        \/ TaskRelease(t)
SpecTasks == InitTasks /\ [][NextTasks]_vars

(***************************************************************************)
(* Claims about bounds_error.py, under SpecBounds.                         *)
(***************************************************************************)
BoundsChecked == bpc \in {"checked", "generated_checked"}

InsideAll(ps, bs) ==
    \A i \in 1..Len(ps) : bs[i][1] <= ps[i] /\ ps[i] <= bs[i][2]

OutsideSome(ps, bs) ==
    \E i \in 1..Len(ps) : ps[i] < bs[i][1] \/ ps[i] > bs[i][2]

\* C1: for a parameter list and a bounds list of the same length,
\* calculate_bounds_error returns 0 exactly when every parameter lies in its
\* own closed interval [min, max], returns -inf exactly when some parameter
\* is strictly below its min or strictly above its max, and returns nothing
\* else.
C1_BinaryBoundsError ==
    (BoundsChecked /\ Len(parameters) = Len(bounds)) =>
        /\ error \in {Zero, NegInf}
        /\ (error = Zero) <=> InsideAll(parameters, bounds)
        /\ (error = NegInf) <=> OutsideSome(parameters, bounds)

\* C1 witness: a two-parameter call that is rejected although its first
\* parameter sits exactly on the upper end of its bound.
C1_Witness ==
    /\ bpc = "checked"
    /\ Len(parameters) = 2 /\ Len(bounds) = 2
    /\ parameters[1] = bounds[1][2] /\ bounds[1][1] < bounds[1][2]
    /\ parameters[2] > bounds[2][2]
    /\ error = NegInf

\* the two ends the claim names for base value p and factor f
LowerEdge(p, f) == p - f * p
UpperEdge(p, f) == p + f * p
FactorAt(i) == IF IsScalar(factor) THEN factor.scalar ELSE factor.list[i]

\* C2: with bounds from generate_bounds(base, factor), for every base value
\* (positive, zero or negative) and every factor, a candidate whose every
\* entry equals base-factor*base or base+factor*base gets 0, and a candidate
\* with an entry strictly outside [base-factor*base, base+factor*base] gets
\* -inf.
C2_EdgesInclusive ==
    bpc = "generated_checked" =>
        /\ (\A i \in 1..Len(base) :
               parameters[i] \in {LowerEdge(base[i], FactorAt(i)),
                                  UpperEdge(base[i], FactorAt(i))})
           => error = Zero
        /\ (\E i \in 1..Len(base) :
               \/ parameters[i] < LowerEdge(base[i], FactorAt(i))
               \/ parameters[i] > UpperEdge(base[i], FactorAt(i)))
           => error = NegInf

(***************************************************************************)
(* Claims about calculate_, under SpecCalc.                                *)
(***************************************************************************)
\* every order a caller can give the same phases in
Reorderings(s) == {[i \in 1..Len(s) |-> s[f[i]]] : f \in Permutations(1..Len(s))}

\* the grid a reordering of the phases of the call gives
GridOf(other) ==
    calculate_(SpeciesOrder, other, StrStatevarDict(conditions), phase_records,
               points, pdens, fake_points, low_points).final_ds

\* the rows of a per-phase result that are not fake points
RealRows(ds) == SelectSeq(ds.rows, LAMBDA r : r.Phase # "_FAKE_")

\* the name that sorts first among the phases of the call
FirstSortedPhase ==
    CHOOSE name \in {phases[i] : i \in 1..Len(phases)} :
        \A i \in 1..Len(phases) : Rank(name) <= Rank(phases[i])

\* C6: calculate_ does not depend on the order of its phases argument: the
\* grid lists the per-phase blocks in ascending phase-name order, each block
\* in sampling order, so every reordering of the same phases returns the
\* identical grid; with exactly one phase the per-phase result is returned
\* as it is, without concatenation.
C6_OrderIndependentGrid ==
    pc = "SAMPLED" =>
        /\ \A k \in 1..(Len(calls) - 1) :
              Rank(calls[k].phase_name) <= Rank(calls[k + 1].phase_name)
        /\ \A name \in PhaseNames :
              Cardinality({k \in 1..Len(calls) : calls[k].phase_name = name})
                = Cardinality({i \in 1..Len(phases) : phases[i] = name})
        /\ \A k \in 1..Len(all_phase_data) :
              LET real == RealRows(all_phase_data[k])
              IN  /\ Len(real) = Len(calls[k].points)
                  /\ \A i \in 1..Len(real) :
                        /\ real[i].Phase = calls[k].phase_name
                        /\ real[i].Y[1] = calls[k].points[i].idx
        /\ grid.rows = Flatten([k \in 1..Len(all_phase_data) |-> all_phase_data[k].rows])
        /\ \A other \in Reorderings(phases) : GridOf(other) = grid
        /\ Len(phases) = 1 => (~concatenated /\ grid = all_phase_data[1])

\* C6 witness: three phases given in descending order, sampled at two points
\* each, come out as the blocks ALPHA, BETA, GAMMA.
C6_Witness ==
    /\ pc = "SAMPLED"
    /\ phases = <<"GAMMA", "BETA", "ALPHA">>
    /\ points = None /\ pdens = 2 /\ ~fake_points
    /\ [i \in 1..Len(grid.rows) |-> grid.rows[i].Phase]
         = <<"ALPHA", "ALPHA", "BETA", "BETA", "GAMMA", "GAMMA">>

\* C8: with fake_points set, the flag is true in the evaluation of exactly
\* one phase, the one whose name sorts first, and false for every other
\* phase, whatever the order of the phases argument; with fake_points unset
\* it is false for every phase.
C8_FakePointsOnFirstSortedPhase ==
    pc = "SAMPLED" =>
        /\ \A k \in 1..Len(calls) :
              calls[k].fake_points <=>
                 (fake_points /\ calls[k].phase_name = FirstSortedPhase)
        /\ Cardinality({calls[k].phase_name : k \in {j \in 1..Len(calls) : calls[j].fake_points}})
             = IF fake_points THEN 1 ELSE 0

\* C8 witness: GAMMA is given first and BETA second; BETA gets the flag.
C8_Witness ==
    /\ pc = "SAMPLED"
    /\ fake_points
    /\ phases = <<"GAMMA", "BETA">>
    /\ calls[1].phase_name = "BETA" /\ calls[1].fake_points
    /\ calls[2].phase_name = "GAMMA" /\ ~calls[2].fake_points

\* C9 (as claimed): the padding width handed to every per-phase evaluation
\* is the largest internal-DOF count over the phases of the call, also when
\* phase_records holds records of phases that are not processed.
C9_WidthOverProcessedPhases ==
    pc = "SAMPLED" =>
        \A k \in 1..Len(calls) :
            calls[k].maximum_internal_dof
              = Max({phase_records[phases[i]].phase_dof : i \in 1..Len(phases)})

\* C9 (amended): the padding width handed to every per-phase evaluation is
\* the largest internal-DOF count over every record of phase_records; it is
\* the largest count over the processed phases when no unprocessed record
\* has a larger one.
C9_WidthOverAllRecords ==
    pc = "SAMPLED" =>
        \A k \in 1..Len(calls) :
            LET w == calls[k].maximum_internal_dof
                processed == {phases[i] : i \in 1..Len(phases)}
            IN  /\ \A name \in DOMAIN phase_records : phase_records[name].phase_dof <= w
                /\ \E name \in DOMAIN phase_records : phase_records[name].phase_dof = w
                /\ (\A name \in DOMAIN phase_records \ processed :
                       \E q \in processed :
                          phase_records[name].phase_dof <= phase_records[q].phase_dof)
                   => \E q \in processed : phase_records[q].phase_dof = w

\* C9 witness: only ALPHA (one degree of freedom) is processed while the
\* record of GAMMA has two; the width handed over is two.
C9_Witness ==
    /\ pc = "SAMPLED"
    /\ phases = <<"ALPHA">>
    /\ phase_records["ALPHA"].phase_dof = 1
    /\ phase_records["GAMMA"].phase_dof = 2
    /\ calls[1].maximum_internal_dof = 2

(***************************************************************************)
(* Claims about the starting point and the equilibrium functions.          *)
(***************************************************************************)
\* C3 (under SpecEq): on a grid built for single-valued conditions,
\* _single_phase_start_point returns a composition set for the first grid
\* point of minimal GM: bound to the record of that point's phase, carrying
\* that point's internal coordinates cut to the phase's DOF count, with
\* phase fraction 1; the choice is the same for every order of the phases.
C3_GlobalCheapestStart ==
    pc \in {"STARTED", "RAISED"} =>
        /\ pc = "STARTED"
        /\ \E i \in 1..Len(grid.rows) :
              /\ \A j \in 1..Len(grid.rows) : grid.rows[i].GM <= grid.rows[j].GM
              /\ \A j \in 1..(i - 1) : grid.rows[j].GM > grid.rows[i].GM
              /\ compset.phase_record = grid.rows[i].Phase
              /\ compset.dof = SubSeq(grid.rows[i].Y, 1,
                                      phase_records[grid.rows[i].Phase].phase_dof)
              /\ compset.NP = 1
        /\ \A other \in Reorderings(phases) :
              single_phase_start_point(AdjustConditions(conditions),
                                       GetStateVariables(conditions),
                                       phase_records, GridOf(other)).compset = compset

\* C4 (under SpecShort): on the same phase records, conditions and grid,
\* no_op_equilibrium_ returns exactly the starting point that equilibrium_
\* hands to the solver, and no_op_equilibrium_ never invokes the solver.
C4_NoOpIsStartingPoint ==
    /\ noop_done => noop_solver_calls = 0
    /\ (eq_done /\ noop_done) => noop_result = eq_start

\* C4 witness: both functions were called on a grid of several points under
\* batched conditions whose mole fraction the adjustment raises.
C4_Witness ==
    /\ eq_done /\ noop_done
    /\ eq_solver_calls = 1
    /\ Len(grid.rows) > 1
    /\ Len(conditions.T) = 2
    /\ conditions.X_B = <<0>>
    /\ noop_result.conditions.X_B = <<1>>

\* C5 (under SpecEq): every call of constrained_equilibrium goes SAMPLED ->
\* STARTED -> (CONVERGED | NOT_CONVERGED): it builds exactly one composition
\* set, invokes the solver exactly once on that one composition set, never
\* again whatever the solver reports, returns (converged, NP * energy) of the
\* composition set as the solver left it, and raises no error.
C5_OneSolveNoRetry ==
    /\ pc # "RAISED"
    /\ pc \in {"STARTED", "CONVERGED", "NOT_CONVERGED"} => compsets_built = 1
    /\ pc = "STARTED" => solver_calls = 0
    /\ pc \in {"CONVERGED", "NOT_CONVERGED"} =>
          /\ solver_calls = 1
          /\ Len(solver_args.compsets) = 1
          /\ result.converged = (pc = "CONVERGED")
          /\ result.energy = compset.NP * compset.energy
          /\ ~ENABLED ConstrainedEquilibriumSolve

(***************************************************************************)
(* Claims about update_phase_record_parameters.                            *)
(***************************************************************************)
\* C7 (under SpecTasks): two concurrent tasks each update with their own
\* parameters and then evaluate. A task can evaluate with parameters other
\* than its own only when the tasks share one set of phase records without
\* mutual exclusion (and there such an interleaving is reached: C7_Witness);
\* with phase-record instances of its own, or with update-then-evaluate
\* under mutual exclusion, every evaluation uses what the same task wrote.
C7_OwnParametersUnlessShared ==
    \A t \in Tasks : \A i \in 1..NumRecords :
        (used[t][i] # NotRead /\ used[t][i] # TaskParameters(t).values)
            => mode = "shared"

\* C7 witness: on shared, unserialized records a task has evaluated a phase
\* record with the parameters the other task wrote.
C7_Witness ==
    \E t \in Tasks : \E i \in 1..NumRecords :
        /\ mode = "shared"
        /\ used[t][i] = TaskParameters(Other(t)).values

\* C10 (under SpecUpd): with a non-empty parameter vector the update leaves
\* every phase record of the mapping with parameters equal element-wise to
\* the given ones, stored in the array the record already had, so whoever
\* holds the record or that array sees them; with an empty vector every
\* record's parameters stay as they were.
C10_InPlaceForEveryRecord ==
    upc = "updated" =>
        \A i \in 1..NumRecords :
            LET rec == MappingRecords[i]
            IN  /\ array_of[rec] = rec
                /\ IF Len(upd_params.values) > 0
                   THEN /\ Len(heap[rec].values) = Len(upd_params.values)
                        /\ \A k \in 1..Len(upd_params.values) :
                              heap[rec].values[k] = upd_params.values[k]
                        /\ RecordParameters(heap, array_of, rec) = upd_params.values
                   ELSE /\ heap[rec] = heap_before[rec]
                        /\ RecordParameters(heap, array_of, rec) = heap_before[rec].values

\* C10 witness: records that held different vectors all hold the integer
\* parameters just given, which differ from what the first record had.
C10_Witness ==
    /\ upc = "updated"
    /\ upd_params.dtype = "int64"
    /\ Len(upd_params.values) > 0
    /\ heap_before[1] # heap_before[2]
    /\ heap_before[1].values # upd_params.values
    /\ \A i \in 1..NumRecords : heap[MappingRecords[i]].values = upd_params.values

====
